---- MODULE Spec2Model ----
(***************************************************************************)
(* ConnectionUnwrapper (linear_api/utils/connection_unwrapper.py): the     *)
(* walk over a GraphQL response tree, the page-fetch recursion of every    *)
(* connection found, and the instance state kept between calls.            *)
(* ProjectManager and TeamManager (linear_api/managers): their methods,    *)
(* the caches they fill and clear, and the service they call.              *)
(***************************************************************************)
EXTENDS Integers, Sequences, FiniteSets, TLC

(***************************************************************************)
(* Response trees: parsed JSON.  A mapping keeps its keys in insertion     *)
(* order (a Python dict), as a sequence of <<key, value>> pairs.           *)
(***************************************************************************)
Null == [t |-> "null"]

Str(s) == [t |-> "str", s |-> s]

Bool(b) == [t |-> "bool", b |-> b]

Num(n) == [t |-> "int", n |-> n]

Map(kv) == [t |-> "map", kv |-> kv]

List(q) == [t |-> "list", q |-> q]

IsDict(x) == x.t = "map"

IsList(x) == x.t = "list"

HasKey(m, k) == \E i \in 1..Len(m.kv) : m.kv[i][1] = k

Get(m, k) == m.kv[CHOOSE i \in 1..Len(m.kv) : m.kv[i][1] = k][2]

\* dict.get(k): None when the key is absent
GetOrNone(m, k) == IF HasKey(m, k) THEN Get(m, k) ELSE Null

\* m[k] = v: an existing key keeps its position, a new key goes last
Put(m, k, v) ==
    IF HasKey(m, k)
    THEN Map([i \in 1..Len(m.kv) |-> IF m.kv[i][1] = k THEN <<k, v>> ELSE m.kv[i]])
    ELSE Map(Append(m.kv, <<k, v>>))

\* Python truth value of a JSON value
Truthy(x) ==
    CASE x.t = "null" -> FALSE
      [] x.t = "bool" -> x.b
      [] x.t = "int"  -> x.n # 0
      [] x.t = "str"  -> x.s # ""
      [] x.t = "list" -> x.q # <<>>
      [] x.t = "map"  -> x.kv # <<>>

(***************************************************************************)
(* An object of the tree is named by its location: the keys and indices    *)
(* that lead to it from the root.  (All records of this module list their *)
(* fields in the order in which the field names first occur in it.)       *)
(***************************************************************************)
Key(s) == [s |-> s, k |-> "key"]

Idx(i) == [k |-> "idx", i |-> i]

RECURSIVE GetAt(_, _)
GetAt(x, loc) ==
    IF loc = <<>> THEN x
    ELSE IF Head(loc).k = "key" THEN GetAt(Get(x, Head(loc).s), Tail(loc))
    ELSE GetAt(x.q[Head(loc).i + 1], Tail(loc))

RECURSIVE SetAt(_, _, _)
SetAt(x, loc, v) ==
    IF loc = <<>> THEN v
    ELSE IF Head(loc).k = "key"
    THEN Put(x, Head(loc).s, SetAt(Get(x, Head(loc).s), Tail(loc), v))
    ELSE List([j \in 1..Len(x.q) |->
                 IF j = Head(loc).i + 1 THEN SetAt(x.q[j], Tail(loc), v) ELSE x.q[j]])

(***************************************************************************)
(* str(i), str.isdigit() and int(p) on the path segments.                  *)
(***************************************************************************)
Digits == <<"0", "1", "2", "3", "4", "5", "6", "7", "8", "9">>

StrOfInt(i) == Digits[i + 1]

IsDigit(p) == \E i \in 1..Len(Digits) : Digits[i] = p

IntOfStr(p) == (CHOOSE i \in 1..Len(Digits) : Digits[i] = p) - 1

RECURSIVE JoinDot(_)
JoinDot(path) ==
    IF path = <<>> THEN ""
    ELSE IF Len(path) = 1 THEN path[1]
    ELSE path[1] \o "." \o JoinDot(Tail(path))

max_depth == 5

\* the check of line 110, isinstance(data["nodes"], list), left out
IsConnectionAnyNodes(d) ==
    /\ IsDict(d)
    /\ HasKey(d, "nodes")
    /\ HasKey(d, "pageInfo")
    /\ IsDict(Get(d, "pageInfo"))
    /\ HasKey(Get(d, "pageInfo"), "hasNextPage")
    /\ HasKey(Get(d, "pageInfo"), "endCursor")

\* _is_connection
IsConnection(d) ==
    /\ IsDict(d)
    /\ HasKey(d, "nodes")
    /\ IsList(Get(d, "nodes"))
    /\ HasKey(d, "pageInfo")
    /\ IsDict(Get(d, "pageInfo"))
    /\ HasKey(Get(d, "pageInfo"), "hasNextPage")
    /\ HasKey(Get(d, "pageInfo"), "endCursor")

\* the connection shape as the API returns it
Conn(nodes, has, cur) ==
    Map(<< <<"nodes", List(nodes)>>,
           <<"pageInfo", Map(<< <<"hasNextPage", has>>, <<"endCursor", cur>> >>)>> >>)

(***************************************************************************)
(* _process_connections, lines 88-95: the frames of the recursive calls    *)
(* made for the children of one mapping, in iteration order.  A frame is   *)
(* the object walked (its location), the path list and the depth.          *)
(***************************************************************************)
Frame(loc, path, depth) == [loc |-> loc, path |-> path, depth |-> depth]

\* lines 93-95: the mapping elements of a sequence-valued child
ItemFrames(q, key, f) ==
    LET idxs == SelectSeq([j \in 1..Len(q) |-> j], LAMBDA j : IsDict(q[j]))
    IN [n \in 1..Len(idxs) |->
          Frame(f.loc \o <<Key(key), Idx(idxs[n] - 1)>>,
                f.path \o <<key, StrOfInt(idxs[n] - 1)>>,
                f.depth + 1)]

\* the children taken last first
RECURSIVE ChildFramesLastFirst(_, _)
ChildFramesLastFirst(kv, f) ==
    IF kv = <<>> THEN <<>>
    ELSE LET key == Head(kv)[1]
             value == Head(kv)[2]
             here == IF IsDict(value)
                     THEN <<Frame(f.loc \o <<Key(key)>>, f.path \o <<key>>, f.depth + 1)>>
                     ELSE IF IsList(value) THEN ItemFrames(value.q, key, f)
                     ELSE <<>>
         IN ChildFramesLastFirst(Tail(kv), f) \o here

\* lines 89-92
RECURSIVE ChildFrames(_, _)
ChildFrames(kv, f) ==
    IF kv = <<>> THEN <<>>
    ELSE LET key == Head(kv)[1]
             value == Head(kv)[2]
             here == IF IsDict(value)
                     THEN <<Frame(f.loc \o <<Key(key)>>, f.path \o <<key>>, f.depth + 1)>>
                     ELSE IF IsList(value) THEN ItemFrames(value.q, key, f)
                     ELSE <<>>
         IN here \o ChildFrames(Tail(kv), f)

(***************************************************************************)
(* _unwrap_connection, lines 194-206: navigate the follow-up response      *)
(* along the path.  "abort" is the early return, "raise" the TypeError of  *)
(* `p in current` or `current[p]` on a value that does not support it.     *)
(***************************************************************************)
IsSubstr(p, s) == \E i \in 1..(Len(s) - Len(p) + 1) : SubSeq(s, i, i + Len(p) - 1) = p

Nav(st, v) == [st |-> st, v |-> v]

\* line 203, `p in current`: "yes", "no" or "raise"
Contains(current, p) ==
    CASE current.t = "map"  -> IF HasKey(current, p) THEN "yes" ELSE "no"
      [] current.t = "list" -> IF \E j \in 1..Len(current.q) : current.q[j] = Str(p)
                               THEN "yes" ELSE "no"
      [] current.t = "str"  -> IF IsSubstr(p, current.s) THEN "yes" ELSE "no"
      [] OTHER -> "raise"

\* an index past the end taken as the last element
RECURSIVE NavigateClamped(_, _)
NavigateClamped(current, path) ==
    IF path = <<>> THEN Nav("ok", current)
    ELSE LET p == Head(path) IN
         IF IsDigit(p)
         THEN IF IsList(current) /\ current.q # <<>>
              THEN NavigateClamped(
                       current.q[IF IntOfStr(p) < Len(current.q)
                                 THEN IntOfStr(p) + 1 ELSE Len(current.q)],
                       Tail(path))
              ELSE Nav("abort", Null)
         ELSE CASE Contains(current, p) = "raise" -> Nav("raise", Null)
                [] Contains(current, p) = "no" -> Nav("abort", Null)
                [] OTHER -> IF IsDict(current)
                            THEN NavigateClamped(Get(current, p), Tail(path))
                            ELSE Nav("raise", Null)

RECURSIVE Navigate(_, _)
Navigate(current, path) ==
    IF path = <<>> THEN Nav("ok", current)
    ELSE LET p == Head(path) IN
         IF IsDigit(p)
         THEN IF IsList(current) /\ IntOfStr(p) < Len(current.q)
              THEN Navigate(current.q[IntOfStr(p) + 1], Tail(path))
              ELSE Nav("abort", Null)
         ELSE CASE Contains(current, p) = "raise" -> Nav("raise", Null)
                [] Contains(current, p) = "no" -> Nav("abort", Null)
                [] OTHER -> IF IsDict(current)
                            THEN Navigate(Get(current, p), Tail(path))
                            ELSE Nav("raise", Null)

\* line 162, list(x): the elements of a sequence, the keys of a mapping, the
\* characters of a string; anything else is not iterable (TypeError)
Iterable(x) == x.t \in {"list", "map", "str"}

ListOf(x) ==
    CASE x.t = "list" -> x.q
      [] x.t = "map"  -> [i \in 1..Len(x.kv) |-> Str(x.kv[i][1])]
      [] x.t = "str"  -> [i \in 1..Len(x.s) |-> Str(SubSeq(x.s, i, i))]

\* the new page put in front of the nodes gathered so far
ExtendFront(all_nodes, new_nodes) == new_nodes \o all_nodes

\* line 213: all_nodes.extend(current["nodes"])
Extend(all_nodes, new_nodes) == all_nodes \o new_nodes

\* lines 166-167 alone: the check of the cursor (lines 169-171) left out
StopsOnNoNextPageOnly(page_info) ==
    ~Truthy(IF HasKey(page_info, "hasNextPage")
            THEN Get(page_info, "hasNextPage") ELSE Bool(FALSE))

\* lines 166-171: no next page, or no cursor to ask for it
StopsBeforeFetch(page_info) ==
    \/ ~Truthy(IF HasKey(page_info, "hasNextPage")
               THEN Get(page_info, "hasNextPage") ELSE Bool(FALSE))
    \/ ~Truthy(GetOrNone(page_info, "endCursor"))

\* a check of the depth argument added to the early returns
EarlyReturnAtDepth(page_info, depth) ==
    StopsBeforeFetch(page_info) \/ depth > max_depth

\* lines 150-171: the early returns of _unwrap_connection; its depth argument
\* (the depth of the walk plus the pages fetched so far, line 222) is not read
EarlyReturn(page_info, depth) == StopsBeforeFetch(page_info)

\* pagination_vars = variables: the cursor keys written into the caller's mapping
AliasVars(v) == [tree |-> v, same |-> TRUE]

\* line 174, copy.deepcopy(variables): an equal mapping in an object of its own
CopyVars(v) == [tree |-> v, same |-> FALSE]

\* the cursor sent under "after" alone
PaginationVarsAfterOnly(variables, path, cursor) == Put(variables, "after", cursor)

\* lines 174-188: pagination_vars
PaginationVars(variables, path, cursor) ==
    LET start == IF path # <<>>
                 THEN Put(variables, path[Len(path)] \o "Cursor", cursor)
                 ELSE variables
    IN Put(Put(start, "cursor", cursor), "after", cursor)

\* a handler for TypeError alone: an executor error leaves the call
HandledTypeErrorOnly(exc) == exc = "TypeError"

\* a handler for the executor's errors alone: a TypeError of the navigation leaves
HandledExecutorOnly(exc) == exc = "ExecutorError"

\* line 229, `except Exception`: every exception raised in the try block
Handled(exc) == exc \in {"ExecutorError", "TypeError"}

\* line 219 left out: the nodes merged, the pageInfo of the page before kept
MergeMoreKeepsPageInfo(d, merged, current) == Put(d, "nodes", List(merged))

\* the last node of the page left behind
MergeMorePartial(d, merged, current) ==
    Put(Put(d, "nodes", List(SubSeq(merged, 1, Len(merged) - 1))),
        "pageInfo", Get(current, "pageInfo"))

\* lines 218-219: more pages follow
MergeMore(d, merged, current) ==
    Put(Put(d, "nodes", List(merged)), "pageInfo", Get(current, "pageInfo"))

\* line 227 left out: hasNextPage set to false, the old endCursor kept
MergeLastKeepsCursor(d, merged, current) ==
    Put(Put(d, "nodes", List(merged)), "pageInfo",
        Put(Get(d, "pageInfo"), "hasNextPage", Bool(FALSE)))

\* lines 225-227: this was the last page
MergeLast(d, merged, current) ==
    LET pi == Put(Put(Get(d, "pageInfo"), "hasNextPage", Bool(FALSE)),
                  "endCursor", GetOrNone(Get(current, "pageInfo"), "endCursor"))
    IN Put(Put(d, "nodes", List(merged)), "pageInfo", pi)

\* the walk run on the caller's tree itself
NoCopy(d) == [tree |-> d, same |-> TRUE]

\* line 50, copy.deepcopy(data): an equal tree in objects of its own
DeepCopy(d) == [tree |-> d, same |-> FALSE]

\* `return None` for a root that is no mapping
ReturnNone(d) == [tree |-> Null, same |-> FALSE]

\* line 47, `return data`: the argument itself
ReturnAsIs(d) == [tree |-> d, same |-> TRUE]

(***************************************************************************)
(* The query executor (self.execute_query): a stub that answers the        *)
(* follow-up fetches of each connection from a script and, once the script *)
(* is used up, either raises or keeps repeating one empty page that        *)
(* reports hasNextPage true.  The nodes of the j-th follow-up page are     *)
(* numbered 10*(j+1)+1, 10*(j+1)+2, ...                                    *)
(***************************************************************************)
MaxMore == 2

MaxCalls == 2

\* calls made on one instance with the wider set of callers
MaxWideCalls == 1

\* pages that report a next page in the longest chain an executor serves
MaxLong == 6

Page(n, has, cur) == [n |-> n, has |-> has, cur |-> cur, r |-> "page"]

More == Page(2, TRUE, "next")

Last == Page(1, FALSE, "null")

MoreNoCursor == Page(1, TRUE, "null")

Raw(kind) == [r |-> kind]

Terminals ==
    {Last, MoreNoCursor, Raw("null"), Raw("number"), Raw("text"), Raw("list"),
     Raw("nokey"), Raw("noinfo")}

Script(pages, tail) == [pages |-> pages, tail |-> tail]

Mores(k) == [j \in 1..k |-> More]

Scripts ==
    {Script(Mores(k) \o t, "raise") :
        k \in 0..MaxMore, t \in {<<>>} \cup {<<x>> : x \in Terminals}}
    \cup {Script(Mores(k), "repeat") : k \in 0..MaxMore}

CoreScripts ==
    {Script(<<>>, "raise"), Script(<<Last>>, "raise"), Script(<<More, Last>>, "raise"),
     Script(<<More>>, "raise"), Script(<<Raw("nokey")>>, "raise"),
     Script(<<>>, "repeat")}

PageNodes(j, n) == [i \in 1..n |-> Num(10 * (j + 1) + i)]

RECURSIVE Wrap(_, _)
Wrap(loc, node) ==
    IF loc = <<>> THEN node
    ELSE IF Head(loc).k = "key"
    THEN Map(<< <<Head(loc).s, Wrap(Tail(loc), node)>> >>)
    ELSE List([j \in 1..(Head(loc).i + 1) |->
                 IF j = Head(loc).i + 1 THEN Wrap(Tail(loc), node) ELSE Null])

\* a response in which the sequence named by an index of loc is too short
RECURSIVE WrapShort(_, _)
WrapShort(loc, node) ==
    IF loc = <<>> THEN node
    ELSE IF Head(loc).k = "key"
    THEN Map(<< <<Head(loc).s, WrapShort(Tail(loc), node)>> >>)
    ELSE List([j \in 1..Head(loc).i |-> Wrap(Tail(loc), node)])

\* a response that holds a mapping keyed "0", "1", ... where loc has a sequence
RECURSIVE WrapKeyed(_, _)
WrapKeyed(loc, node) ==
    IF loc = <<>> THEN node
    ELSE IF Head(loc).k = "key"
    THEN Map(<< <<Head(loc).s, WrapKeyed(Tail(loc), node)>> >>)
    ELSE Map(<< <<StrOfInt(Head(loc).i), WrapKeyed(Tail(loc), node)>> >>)

\* the script entry that answers fetch number ix + 1 of the connection at loc
ExecResponse(st, loc, ix) ==
    IF loc \notin DOMAIN st THEN Raw("raise")
    ELSE IF ix < Len(st[loc].pages) THEN st[loc].pages[ix + 1]
    ELSE IF st[loc].tail = "repeat" THEN Page(0, TRUE, "same")
    ELSE Raw("raise")

\* a first page that promises a next one
FirstPage(cur) == Conn(<<Num(11)>>, Bool(TRUE), Str(cur))

\* the parsed response the executor returns for that entry
ResponseTree(loc, resp, j) ==
    CASE resp.r = "page" ->
           Wrap(loc, Conn(PageNodes(j, resp.n), Bool(resp.has),
                          CASE resp.cur = "next" -> Str("c" \o StrOfInt(j + 1))
                            [] resp.cur = "same" -> Str("c")
                            [] resp.cur = "empty" -> Str("")
                            [] OTHER -> Null))
      [] resp.r = "null"   -> Null
      [] resp.r = "number" -> Num(7)
      [] resp.r = "text"   -> Str("error")
      [] resp.r = "list"   -> List(<<Str("error")>>)
      [] resp.r = "nokey"  -> Map(<<>>)
      [] resp.r = "noinfo" -> Wrap(loc, Map(<< <<"nodes", List(<<Num(99)>>)>> >>))
      [] resp.r = "short"  ->
           WrapShort(loc, Conn(PageNodes(j, 1), Bool(FALSE), Null))
      [] resp.r = "keyed"  ->
           WrapKeyed(loc, Conn(PageNodes(j, 1), Bool(FALSE), Null))
      [] resp.r = "grown"  ->
           Wrap(loc, Conn(<< Map(<< <<"id", Num(10 * (j + 1) + 1)>>,
                                    <<"sub", FirstPage("s1")>> >>) >>,
                          Bool(FALSE), Null))

\* the connection shape of the API: a nodes sequence and a pageInfo mapping
\* with the keys hasNextPage and endCursor
ConnectionShaped(x) ==
    /\ x.t = "map"
    /\ HasKey(x, "nodes") /\ Get(x, "nodes").t = "list"
    /\ HasKey(x, "pageInfo") /\ Get(x, "pageInfo").t = "map"
    /\ HasKey(Get(x, "pageInfo"), "hasNextPage")
    /\ HasKey(Get(x, "pageInfo"), "endCursor")

\* every location of the tree that holds a connection-shaped mapping
RECURSIVE ConnLocsAt(_, _)
ConnLocsAt(x, loc) ==
    (IF ConnectionShaped(x) THEN {loc} ELSE {})
    \cup (IF IsDict(x)
          THEN UNION {ConnLocsAt(x.kv[i][2], loc \o <<Key(x.kv[i][1])>>) : i \in 1..Len(x.kv)}
          ELSE IF IsList(x)
          THEN UNION {ConnLocsAt(x.q[j], loc \o <<Idx(j - 1)>>) : j \in 1..Len(x.q)}
          ELSE {})

ConnLocs(x) == ConnLocsAt(x, <<>>)

(***************************************************************************)
(* The responses a caller hands to unwrap_connections.                     *)
(***************************************************************************)
InOne == Map(<< <<"items", FirstPage("c1")>> >>)

InRoot == FirstPage("c1")

InDone == Map(<< <<"items", Conn(<<Num(11)>>, Bool(FALSE), Null)>> >>)

InTwo == Map(<< <<"a", FirstPage("a1")>>, <<"b", FirstPage("b1")>> >>)

InList ==
    Map(<< <<"teams", List(<< Map(<< <<"issues", FirstPage("t0")>> >>),
                              Str("x"),
                              Map(<< <<"issues", FirstPage("t2")>> >>) >>)>> >>)

InNested ==
    Map(<< <<"items",
             Conn(<< Map(<< <<"id", Num(11)>>, <<"sub", FirstPage("s1")>> >>) >>,
                  Bool(TRUE), Str("c1"))>> >>)

\* no connection: a nodes value that is one object, a pageInfo without endCursor
InPlain ==
    Map(<< <<"viewer", Map(<< <<"name", Str("x")>>, <<"tags", List(<<Str("t")>>)>> >>)>>,
           <<"one", Map(<< <<"nodes", Map(<< <<"id", Num(1)>> >>)>>,
                           <<"pageInfo", Map(<< <<"hasNextPage", Bool(TRUE)>>,
                                                <<"endCursor", Str("c1")>> >>)>> >>)>>,
           <<"list", List(<< Map(<< <<"nodes", List(<<Num(1)>>)>>,
                                    <<"pageInfo", Map(<< <<"hasNextPage", Bool(TRUE)>> >>)>> >>),
                             Num(1) >>)>> >>)

\* connections at depth 5 (path a.a.a.a.a) and depth 6
InDeep ==
    LET d6 == FirstPage("d6")
        d5 == Put(FirstPage("d5"), "a", d6)
        d4 == Map(<< <<"a", d5>> >>)
        d3 == Map(<< <<"a", d4>> >>)
        d2 == Map(<< <<"a", d3>> >>)
        d1 == Map(<< <<"a", d2>> >>)
    IN Map(<< <<"a", d1>> >>)

DictInputs == {InOne, InRoot, InDone, InTwo, InList, InNested, InPlain, InDeep}

OtherInputs == {Null, Str("x"), List(<<InOne>>)}

Inputs == DictInputs \cup OtherInputs

StubsFor(in) ==
    IF ~IsDict(in) THEN {<<>>}
    ELSE IF Cardinality(ConnLocs(in)) <= 1 THEN [ConnLocs(in) -> Scripts]
    ELSE [ConnLocs(in) -> CoreScripts]

CallerVars == {Map(<< <<"first", Num(2)>> >>)}

(***************************************************************************)
(* More callers: first pages whose hasNextPage is no boolean or whose      *)
(* endCursor is null, empty or a number; last pages that carry a cursor;   *)
(* follow-up responses that lack an element of the path; variables that    *)
(* already hold cursor keys.                                               *)
(***************************************************************************)
OddPage(has, cur) == Map(<< <<"items", Conn(<<Num(11)>>, has, cur)>> >>)

InTextual == OddPage(Str("yes"), Str("c1"))

InNumeric == OddPage(Num(1), Str("c1"))

InNullNext == OddPage(Null, Str("c1"))

InNoCursor == OddPage(Bool(TRUE), Null)

InEmptyCursor == OddPage(Bool(TRUE), Str(""))

InNumCursor == OddPage(Bool(TRUE), Num(5))

OddInputs == {InTextual, InNumeric, InNullNext, InNoCursor, InEmptyCursor, InNumCursor}

LastWithCursor == Page(1, FALSE, "next")

MoreEmptyCursor == Page(1, TRUE, "empty")

WideTerminals ==
    Terminals \cup {LastWithCursor, MoreEmptyCursor, Raw("short"), Raw("keyed")}

WideScripts ==
    {Script(Mores(k) \o t, "raise") :
        k \in 0..MaxMore, t \in {<<>>} \cup {<<x>> : x \in WideTerminals}}
    \cup {Script(Mores(k), "repeat") : k \in 0..MaxMore}

WideCoreScripts ==
    CoreScripts \cup {Script(<<Raw("short")>>, "raise"), Script(<<Raw("keyed")>>, "raise"),
                      Script(<<LastWithCursor>>, "raise")}

WideInputs == Inputs \cup OddInputs

WideStubsFor(in) ==
    IF ~IsDict(in) THEN {<<>>}
    ELSE IF Cardinality(ConnLocs(in)) <= 1 THEN [ConnLocs(in) -> WideScripts]
    ELSE IF Cardinality(ConnLocs(in)) = 2 THEN [ConnLocs(in) -> WideCoreScripts]
    ELSE [ConnLocs(in) -> CoreScripts]

WideVars ==
    CallerVars \cup {Map(<< <<"after", Str("start")>>, <<"first", Num(2)>>,
                            <<"itemsCursor", Str("old")>> >>)}

(***************************************************************************)
(* Responses of other shapes: a sequence that is an element of a sequence, *)
(* a mapping key that contains '.', a mapping key made of digits; and an   *)
(* executor whose follow-up page brings a node that holds a connection.    *)
(***************************************************************************)
InMatrix ==
    Map(<< <<"rows", List(<< List(<< Map(<< <<"items", FirstPage("c1")>> >>) >>) >>)>> >>)

InDotted ==
    Map(<< <<"a.b", FirstPage("x1")>>,
           <<"a", Map(<< <<"b", FirstPage("y1")>> >>)>> >>)

InDigits == Map(<< <<"7", FirstPage("c1")>> >>)

ShapeInputs == {InMatrix, InDotted, InDigits}

\* where the node of the "grown" page puts its connection in InOne
GrownLoc == <<Key("items"), Key("nodes"), Idx(1), Key("sub")>>

GrownStubs ==
    {(<<Key("items")>> :> Script(<<Raw("grown")>>, "raise")) @@ (GrownLoc :> sc) :
        sc \in CoreScripts}

ShapeStubsFor(in) ==
    WideStubsFor(in) \cup (IF in = InOne THEN GrownStubs ELSE {})

(***************************************************************************)
(* State.  processed_paths is the field of the ConnectionUnwrapper         *)
(* instance; the rest is one unwrap_connections call: its arguments, the   *)
(* tree it works on, the pending recursive calls of the walk, and the      *)
(* locals of the _unwrap_connection frame that is running.                 *)
(***************************************************************************)
VARIABLES
    pc,               \* "idle", "walk", "unwrap", "fetch", "children"
    ncall,            \* calls made on this instance
    processed_paths,  \* self.processed_paths
    input,            \* the caller's responseBody object, as it is now
    orig,             \* its value when the call was made
    variables,        \* the caller's variables
    stub,             \* the executor's scripts for this call
    data,             \* `result` of unwrap_connections while it is walked
    shared,           \* the tree walked or returned is the caller's object
    result,           \* what the call returned
    stack,            \* pending _process_connections calls, next one first
    cur,              \* frame of the connection being unwrapped
    all_nodes,        \* local of _unwrap_connection
    pvars,            \* `variables` of _unwrap_connection, then pagination_vars
    ix,               \* fetches the executor answered for this connection
    sent,             \* variables of the latest executor call
    fetchedAt,        \* connections the executor was called for in this call
    reached,          \* connections the walk found in this call
    escaped,          \* an exception left unwrap_connections
    mutated,          \* the caller changed the returned tree
    query,            \* the caller's query string
    orig_variables,   \* the value of the caller's variables when the call was made
    sent_query,       \* query of the latest executor call
    executor_calls,   \* executor calls made in this call (counted up to CallCap)
    prev              \* the previous follow-up response of the connection unwrapped

uvars == <<pc, ncall, processed_paths, input, orig, variables, stub, data, shared,
           result, stack, cur, all_nodes, pvars, ix, sent, fetchedAt, reached,
           escaped, mutated, query, orig_variables, sent_query, executor_calls, prev>>

(***************************************************************************)
(* ProjectManager and TeamManager (linear_api/managers): the methods of a  *)
(* client, the service they call and the caches they keep.  A method is    *)
(* one step; what it returns or raises, the requests it sent and the       *)
(* caches it left are the state after it.                                  *)
(***************************************************************************)

\* projects the service ever holds
MaxProjects == 2

\* manager calls made on the client
MaxOps == 3

ProjectNames == {"old", "new"}

Descriptions == {"d0", "d1"}

\* the service's teams, by name
Teams == [Test |-> "t1"]

TeamNames == {"Test", "NonExistentTeam"}

\* a manager call: the method, its arguments, whether projects_by_id held its
\* project id when it began, the requests it sent, the exception it raised ("" for
\* none) and the value it returned
OpRec(call, arg, team, kwargs, held, reqs, raised, ret) ==
    [call |-> call, arg |-> arg, team |-> team, kwargs |-> kwargs, held |-> held,
     reqs |-> reqs, raised |-> raised, ret |-> ret]

NoOp == OpRec("none", 0, "", <<>>, FALSE, <<>>, "", 0)

\* what is kept of the call before the latest: the method, its project or name,
\* whether the cache held the project, and the exception
Brief(o) == [o EXCEPT !.team = "", !.kwargs = <<>>, !.reqs = <<>>, !.ret = 0]

\* a method on its way: requests sent so far, what it raised or returned, and the
\* service and the caches as they are now
Done(reqs, raised, ret, svc, caches) ==
    [reqs |-> reqs, raised |-> raised, ret |-> ret, svc |-> svc, caches |-> caches]

\* a mapping without keys
EmptyMap == [k \in {} |-> k]

Without(f, key) == [k \in DOMAIN f \ {key} |-> f[k]]

(***************************************************************************)
(* client.cache: named caches of key-value entries.  An entry is there     *)
(* from the set that wrote it until it is invalidated or its cache is      *)
(* cleared; its time to live is longer than the calls followed here.       *)
(***************************************************************************)
CacheHas(caches, full_cache_name, key) == key \in DOMAIN caches[full_cache_name]

\* the value of an entry that is there (get answers None for one that is not)
CacheGet(caches, full_cache_name, key) == caches[full_cache_name][key]

CacheSet(caches, full_cache_name, key, value) ==
    [caches EXCEPT ![full_cache_name] = (key :> value) @@ @]

CacheClear(caches, full_cache_name) ==
    [caches EXCEPT ![full_cache_name] = EmptyMap]

CacheInvalidate(caches, full_cache_name, key) ==
    [caches EXCEPT ![full_cache_name] = Without(@, key)]

\* BaseManager: f"{self._resource_type_name}_{cache_name}", kept as the pair
FullName(resource, cache_name) == <<resource, cache_name>>

ProjectCaches == {"projects_by_id", "all_projects", "project_ids_by_name"}

TeamCaches == {"teams_by_id", "all_teams", "team_ids_by_name"}

CacheNames ==
    {FullName("Project", n) : n \in ProjectCaches} \cup
    {FullName("Team", n) : n \in TeamCaches}

\* BaseManager._cache_get: `if cached:` is taken for an entry whose value is true
cache_has(caches, resource, cache_name, key) ==
    CacheHas(caches, FullName(resource, cache_name), key)

cache_get(caches, resource, cache_name, key) ==
    CacheGet(caches, FullName(resource, cache_name), key)

\* BaseManager._cache_set
cache_set(caches, resource, cache_name, key, value) ==
    CacheSet(caches, FullName(resource, cache_name), key, value)

\* BaseManager._cache_clear(cache_name)
cache_clear(caches, resource, cache_name) ==
    CacheClear(caches, FullName(resource, cache_name))

\* BaseManager._cache_clear(): every cache of the resource type
cache_clear_all(caches, resource) ==
    [full \in DOMAIN caches |-> IF full[1] = resource THEN EmptyMap ELSE caches[full]]

\* an invalidation that leaves the entry where it is
cache_invalidate_kept(caches, resource, cache_name, key) == caches

\* BaseManager._cache_invalidate
cache_invalidate(caches, resource, cache_name, key) ==
    CacheInvalidate(caches, FullName(resource, cache_name), key)

\* a LinearProject object, with the fields the calls here read
LinearProject(id, name, description) ==
    [id |-> id, name |-> name, description |-> description]

(***************************************************************************)
(* The service.  svc maps the id of every project it has to the project's  *)
(* name and description; ids are issued in order and never again.          *)
(***************************************************************************)
ServiceProject(name, description) == [name |-> name, description |-> description]

\* a project node of a response
ProjectData(id, p) ==
    Map(<< <<"id", Num(id)>>, <<"name", Str(p.name)>>,
           <<"description", Str(p.description)>> >>)

RECURSIVE ProjectNodes(_, _)
ProjectNodes(svc, id) ==
    IF id > MaxProjects THEN <<>>
    ELSE (IF id \in DOMAIN svc THEN <<ProjectData(id, svc[id])>> ELSE <<>>)
         \o ProjectNodes(svc, id + 1)

\* query { project(id) { ... } }
ProjectQuery(svc, id) ==
    Map(<< <<"project", IF id \in DOMAIN svc THEN ProjectData(id, svc[id]) ELSE Null>> >>)

\* query { projects { nodes { id name description } } }
ProjectsQuery(svc) ==
    Map(<< <<"projects", Map(<< <<"nodes", List(ProjectNodes(svc, 1))>> >>)>> >>)

TeamData(team_name) ==
    Map(<< <<"id", Str(Teams[team_name])>>, <<"name", Str(team_name)>> >>)

\* query { teams { nodes { id name } } }
TeamsQuery ==
    Map(<< <<"teams", Map(<< <<"nodes", List(<<TeamData("Test")>>)>> >>)>> >>)

\* the answer to a mutation
MutationData(field, success, id) ==
    Map(<< <<field, Map(<< <<"success", Bool(success)>>,
                           <<"project", Map(<< <<"id", Num(id)>> >>)>> >>)>> >>)

\* what projectUpdate writes
Updated(p, kwargs) ==
    ServiceProject(IF "name" \in DOMAIN kwargs THEN kwargs.name ELSE p.name,
                   IF "description" \in DOMAIN kwargs THEN kwargs.description
                   ELSE p.description)

\* the keyword arguments of an update
UpdateKwargs ==
    {<<>>} \cup {[name |-> n] : n \in ProjectNames}
           \cup {[description |-> d] : d \in Descriptions}
           \cup {[name |-> n, description |-> d] : n \in ProjectNames, d \in Descriptions}

\* how the transport hands on a request the service refuses: as data (a null
\* object, `success: false`) or as a ValueError
Refusals == {"data", "raise"}

VARIABLES
    svc,       \* the service's projects
    issued,    \* project ids the service has issued
    caches,    \* client.cache
    op,        \* the latest manager call
    prev_op,   \* the manager call before it
    nops,      \* manager calls made
    updated    \* projects an update of this client has changed

mvars == <<svc, issued, caches, op, prev_op, nops, updated>>

(***************************************************************************)
(* BaseManager._handle_pagination (the loop the managers used before the   *)
(* unwrapper): its arguments, the server it asks, and its locals.          *)
(***************************************************************************)
VARIABLES
    legacy_pc,          \* "idle", "loop" (about to send a request) or "done"
    legacy_variables,   \* the caller's variables
    legacy_node_path,   \* the caller's node_path
    legacy_server,      \* the server's chain of pages
    legacy_cursor,      \* cursor
    legacy_results,     \* results
    legacy_query_vars,  \* query_vars of the latest request
    legacy_response     \* the latest response

lvars == <<legacy_pc, legacy_variables, legacy_node_path, legacy_server, legacy_cursor,
           legacy_results, legacy_query_vars, legacy_response>>

vars == <<uvars, mvars, lvars>>

\* a client just made, and a service with one project
MInit ==
    /\ svc = (1 :> ServiceProject("old", "d0"))
    /\ issued = 1
    /\ caches = [full \in CacheNames |-> EmptyMap]
    /\ op = NoOp
    /\ prev_op = NoOp
    /\ nops = 0
    /\ updated = {}

\* no follow-up response yet
NoPage == [t |-> "none"]

\* no _handle_pagination call yet
LInit ==
    /\ legacy_pc = "idle"
    /\ legacy_variables = Map(<<>>)
    /\ legacy_node_path = <<>>
    /\ legacy_server = <<>>
    /\ legacy_cursor = Null
    /\ legacy_results = <<>>
    /\ legacy_query_vars = Null
    /\ legacy_response = NoPage

\* the query of every call: the unwrapper never reads it
TheQuery == "query Q($after: String) { items(after: $after) { nodes { id } } }"

\* executor calls are counted up to one more than the longest script
CallCap == MaxMore + 2

NoFrame == Frame(<<>>, <<>>, 0)

Init ==
    /\ pc = "idle"
    /\ ncall = 0
    /\ processed_paths = {}
    /\ input = Null
    /\ orig = Null
    /\ variables = Map(<<>>)
    /\ stub = <<>>
    /\ data = Null
    /\ shared = FALSE
    /\ result = Null
    /\ stack = <<>>
    /\ cur = NoFrame
    /\ all_nodes = <<>>
    /\ pvars = Map(<<>>)
    /\ ix = 0
    /\ sent = Null
    /\ fetchedAt = {}
    /\ reached = {}
    /\ escaped = FALSE
    /\ mutated = FALSE
    /\ query = ""
    /\ orig_variables = Map(<<>>)
    /\ sent_query = ""
    /\ executor_calls = 0
    /\ prev = NoPage
    /\ MInit
    /\ LInit

\* a write to the tree being walked shows in the caller's object when they are one
InputAfter(newdata) == IF shared THEN newdata ELSE input

\* unwrap_connections, lines 46-53
Call(in, st, vs) ==
    /\ pc = "idle"
    /\ ncall < MaxCalls
    /\ ncall' = ncall + 1
    /\ input' = in
    /\ orig' = in
    /\ variables' = vs
    /\ stub' = st
    /\ IF ~IsDict(in)
       THEN /\ result' = ReturnAsIs(in).tree
            /\ shared' = ReturnAsIs(in).same
            /\ data' = Null
            /\ stack' = <<>>
            /\ pc' = "idle"
       ELSE /\ data' = DeepCopy(in).tree
            /\ shared' = DeepCopy(in).same
            /\ result' = Null
            /\ stack' = <<Frame(<<>>, <<>>, 0)>>
            /\ pc' = "walk"
    /\ cur' = NoFrame
    /\ all_nodes' = <<>>
    /\ pvars' = Map(<<>>)
    /\ ix' = 0
    /\ sent' = Null
    /\ fetchedAt' = {}
    /\ reached' = {}
    /\ escaped' = FALSE
    /\ mutated' = FALSE
    /\ query' = TheQuery
    /\ orig_variables' = vs
    /\ sent_query' = ""
    /\ executor_calls' = 0
    /\ prev' = NoPage
    /\ UNCHANGED processed_paths
    /\ UNCHANGED <<mvars, lvars>>

\* _process_connections, lines 69-86 and, for a mapping that is no connection, 88-95
Visit ==
    /\ pc = "walk"
    /\ stack # <<>>
    /\ LET f == Head(stack)
           d == GetAt(data, f.loc)
           path_str == JoinDot(f.path)
       IN IF f.depth > max_depth \/ ~IsDict(d)
          THEN /\ stack' = Tail(stack)
               /\ UNCHANGED <<pc, processed_paths, cur, pvars, ix, reached, prev>>
          ELSE IF IsConnection(d)
          THEN /\ reached' = reached \cup {f.loc}
               /\ stack' = Tail(stack)
               /\ IF path_str \in processed_paths
                  THEN UNCHANGED <<pc, processed_paths, cur, pvars, ix, prev>>
                  ELSE /\ processed_paths' = processed_paths \cup {path_str}
                       /\ cur' = f
                       /\ pvars' = variables
                       /\ ix' = 0
                       /\ prev' = NoPage
                       /\ pc' = "unwrap"
          ELSE /\ stack' = ChildFrames(d.kv, f) \o Tail(stack)
               /\ UNCHANGED <<pc, processed_paths, cur, pvars, ix, reached, prev>>
    /\ UNCHANGED <<ncall, input, orig, variables, stub, data, shared, result,
                   all_nodes, sent, fetchedAt, escaped, mutated, query, orig_variables,
                   sent_query, executor_calls>>
    /\ UNCHANGED <<mvars, lvars>>

\* _unwrap_connection, lines 162-188
UnwrapEnter ==
    /\ pc = "unwrap"
    /\ LET d == GetAt(data, cur.loc)
           page_info == Get(d, "pageInfo")
           cursor == GetOrNone(page_info, "endCursor")
           copied == CopyVars(pvars)
       IN IF ~Iterable(Get(d, "nodes"))
          THEN /\ escaped' = TRUE
               /\ pc' = "idle"
               /\ stack' = <<>>
               /\ data' = Null
               /\ UNCHANGED <<all_nodes, pvars, variables>>
          ELSE /\ all_nodes' = ListOf(Get(d, "nodes"))
               /\ UNCHANGED <<escaped, stack, data>>
               /\ IF EarlyReturn(page_info, cur.depth + ix)
                  THEN /\ pc' = "children"
                       /\ UNCHANGED <<pvars, variables>>
                  ELSE /\ pc' = "fetch"
                       /\ pvars' = PaginationVars(copied.tree, cur.path, cursor)
                       /\ variables' = IF copied.same THEN pvars' ELSE variables
    /\ UNCHANGED <<ncall, processed_paths, input, orig, stub, shared,
                   result, cur, ix, sent, fetchedAt, reached, mutated, query,
                   orig_variables, sent_query, executor_calls, prev>>
    /\ UNCHANGED <<mvars, lvars>>

(***************************************************************************)
(* _unwrap_connection, lines 190-230: one executor call and what is done   *)
(* with its response.  The outcome is "more" (merged, recurse), "last"     *)
(* (merged, done), "stop" (nothing merged) or "escape" (an exception that  *)
(* no handler caught), with the connection's new value.                    *)
(***************************************************************************)
Outcome(kind, d) == [d |-> d, kind |-> kind]

FetchOutcome(d, path, nodes, resp, next_page) ==
    IF resp.r = "raise"
    THEN Outcome(IF Handled("ExecutorError") THEN "stop" ELSE "escape", d)
    ELSE LET nav == Navigate(next_page, path) IN
         IF nav.st = "raise"
         THEN Outcome(IF Handled("TypeError") THEN "stop" ELSE "escape", d)
         ELSE IF nav.st = "abort" \/ ~IsConnection(nav.v)
         THEN Outcome("stop", d)
         ELSE LET merged == Extend(nodes, ListOf(Get(nav.v, "nodes"))) IN
              IF Truthy(Get(Get(nav.v, "pageInfo"), "hasNextPage"))
              THEN Outcome("more", MergeMore(d, merged, nav.v))
              ELSE Outcome("last", MergeLast(d, merged, nav.v))

Fetch ==
    /\ pc = "fetch"
    /\ LET resp == ExecResponse(stub, cur.loc, ix)
           next_page == IF resp.r = "raise" THEN Null
                        ELSE ResponseTree(cur.loc, resp, ix + 1)
           out == FetchOutcome(GetAt(data, cur.loc), cur.path, all_nodes, resp, next_page)
       IN /\ sent' = pvars
          /\ sent_query' = query
          /\ executor_calls' = IF executor_calls < CallCap
                                THEN executor_calls + 1 ELSE executor_calls
          /\ prev' = IF resp.r = "raise" THEN NoPage ELSE next_page
          /\ fetchedAt' = fetchedAt \cup {cur.loc}
          /\ ix' = IF cur.loc \in DOMAIN stub /\ ix < Len(stub[cur.loc].pages)
                   THEN ix + 1 ELSE ix
          /\ IF out.kind = "escape"
             THEN /\ escaped' = TRUE
                  /\ pc' = "idle"
                  /\ stack' = <<>>
                  /\ data' = Null
                  /\ input' = InputAfter(data)
             ELSE /\ escaped' = FALSE
                  /\ pc' = IF out.kind = "more" THEN "unwrap" ELSE "children"
                  /\ stack' = stack
                  /\ data' = SetAt(data, cur.loc, out.d)
                  /\ input' = InputAfter(data')
    /\ UNCHANGED <<ncall, processed_paths, orig, variables, stub, shared, result, cur,
                   all_nodes, pvars, reached, mutated, query, orig_variables>>
    /\ UNCHANGED <<mvars, lvars>>

\* _process_connections, lines 88-95, after _unwrap_connection has returned
WalkChildren ==
    /\ pc = "children"
    /\ stack' = ChildFrames(GetAt(data, cur.loc).kv, cur) \o stack
    /\ pc' = "walk"
    /\ UNCHANGED <<ncall, processed_paths, input, orig, variables, stub, data, shared,
                   result, cur, all_nodes, pvars, ix, sent, fetchedAt, reached,
                   escaped, mutated, query, orig_variables, sent_query, executor_calls,
                   prev>>
    /\ UNCHANGED <<mvars, lvars>>

\* unwrap_connections, line 55
Return ==
    /\ pc = "walk"
    /\ stack = <<>>
    /\ result' = data
    /\ data' = Null
    /\ pc' = "idle"
    /\ cur' = NoFrame
    /\ all_nodes' = <<>>
    /\ pvars' = Map(<<>>)
    /\ ix' = 0
    /\ UNCHANGED <<ncall, processed_paths, input, orig, variables, stub, shared, stack,
                   sent, fetchedAt, reached, escaped, mutated, query, orig_variables,
                   sent_query, executor_calls, prev>>
    /\ UNCHANGED <<mvars, lvars>>

\* the caller changes the tree it was given back
Touch(x) ==
    IF IsDict(x) THEN Put(x, "touched", Bool(TRUE))
    ELSE List(Append(x.q, Str("touched")))

MutateResult ==
    /\ pc = "idle"
    /\ ncall > 0
    /\ ~escaped
    /\ ~mutated
    /\ IsDict(result) \/ IsList(result)
    /\ result' = Touch(result)
    /\ input' = IF shared THEN result' ELSE input
    /\ mutated' = TRUE
    /\ UNCHANGED <<pc, ncall, processed_paths, orig, variables, stub, data, shared,
                   stack, cur, all_nodes, pvars, ix, sent, fetchedAt, reached, escaped,
                   query, orig_variables, sent_query, executor_calls, prev>>
    /\ UNCHANGED <<mvars, lvars>>

Step == Visit \/ UnwrapEnter \/ Fetch \/ WalkChildren \/ Return

Next ==
    \/ \E in \in Inputs : \E st \in StubsFor(in) : \E vs \in CallerVars : Call(in, st, vs)
    \/ Visit
    \/ UnwrapEnter
    \/ Fetch
    \/ WalkChildren
    \/ Return
    \/ MutateResult

Spec == Init /\ [][Next]_vars

\* one call on a fresh instance
NextFirstCall ==
    \/ \E in \in Inputs : \E st \in StubsFor(in) : \E vs \in CallerVars :
          ncall = 0 /\ Call(in, st, vs)
    \/ Visit
    \/ UnwrapEnter
    \/ Fetch
    \/ WalkChildren
    \/ Return
    \/ MutateResult

\* calls with every response, executor and variables above
NextWide ==
    \/ \E in \in WideInputs : \E st \in WideStubsFor(in) : \E vs \in WideVars :
          ncall < MaxWideCalls /\ Call(in, st, vs)
    \/ Visit
    \/ UnwrapEnter
    \/ Fetch
    \/ WalkChildren
    \/ Return
    \/ MutateResult

WideSpec == Init /\ [][NextWide]_vars

\* one call on a fresh instance, with the responses of other shapes as well
NextShape ==
    \/ \E in \in WideInputs \cup ShapeInputs :
       \E st \in ShapeStubsFor(in) : \E vs \in WideVars :
          ncall = 0 /\ Call(in, st, vs)
    \/ Visit
    \/ UnwrapEnter
    \/ Fetch
    \/ WalkChildren
    \/ Return
    \/ MutateResult

ShapeSpec == Init /\ [][NextShape]_vars

(***************************************************************************)
(* Two calls on one instance, interleaved.  The calls share nothing but    *)
(* self.processed_paths (lines 31-32); what the other call does to this    *)
(* one is line 85, run for a connection of its own response that it        *)
(* reaches (line 82: not yet in the set) while this call is under way.     *)
(***************************************************************************)
\* the path list of a location (lines 90, 95)
PathOf(loc) ==
    [i \in 1..Len(loc) |-> IF loc[i].k = "key" THEN loc[i].s ELSE StrOfInt(loc[i].i)]

\* the responses the other call may be walking
OtherResponses == {InOne, InTwo}

OtherPaths == {JoinDot(PathOf(loc)) : loc \in UNION {ConnLocs(in) : in \in OtherResponses}}

OtherCallVisit ==
    /\ pc # "idle"
    /\ \E path_str \in OtherPaths :
          /\ path_str \notin processed_paths
          /\ processed_paths' = processed_paths \cup {path_str}
    /\ UNCHANGED <<pc, ncall, input, orig, variables, stub, data, shared, result, stack,
                   cur, all_nodes, pvars, ix, sent, fetchedAt, reached, escaped, mutated,
                   query, orig_variables, sent_query, executor_calls, prev>>
    /\ UNCHANGED <<mvars, lvars>>

NextInterleaved ==
    \/ \E in \in Inputs : \E st \in StubsFor(in) : \E vs \in CallerVars :
          ncall = 0 /\ Call(in, st, vs)
    \/ Visit
    \/ UnwrapEnter
    \/ Fetch
    \/ WalkChildren
    \/ Return
    \/ MutateResult
    \/ OtherCallVisit

InterleavedSpec == Init /\ [][NextInterleaved]_vars

(***************************************************************************)
(* One call on a fresh instance with executors that serve long chains:     *)
(* more follow-up pages than max_depth + 1.                                *)
(***************************************************************************)
LongScripts ==
    {Script(Mores(k) \o <<Last>>, "raise") : k \in {0, MaxLong - 1, MaxLong}}

LongInputs == {InOne, InRoot, InNested, InDeep, InList}

NextLong ==
    \/ \E in \in LongInputs : \E st \in [ConnLocs(in) -> LongScripts] :
       \E vs \in CallerVars :
          ncall = 0 /\ Call(in, st, vs)
    \/ Visit
    \/ UnwrapEnter
    \/ Fetch
    \/ WalkChildren
    \/ Return
    \/ MutateResult

LongSpec == Init /\ [][NextLong]_vars

\* the code is sequential and synchronous: a call that can take its next step
\* takes it
FairSpec == Init /\ [][NextFirstCall]_vars /\ WF_vars(Step)

(***************************************************************************)
(* The manager methods.  Each takes the method on its way (no request sent *)
(* yet, the service and the caches as the call found them) and gives it    *)
(* back as the call leaves it.  `_execute_query` hands the response to the *)
(* manager's unwrapper; no query of these managers asks for pageInfo, so   *)
(* no object of a response is a connection and the response comes back     *)
(* equal.                                                                  *)
(***************************************************************************)
Begin == Done(<<>>, "", 0, svc, caches)

\* the transport raises for a request the service refuses
Raises(refused, refusal) == refused /\ refusal = "raise"

\* team_id of a call that names no team
NoTeam == "None"

\* process_project_data: the LinearProject of a project node
process_project_data(project_data) ==
    LinearProject(Get(project_data, "id").n, Get(project_data, "name").s,
                  Get(project_data, "description").s)

\* ProjectManager.get
project_get(m, project_id, refusal) ==
    IF cache_has(m.caches, "Project", "projects_by_id", project_id)
    THEN [m EXCEPT !.ret = cache_get(m.caches, "Project", "projects_by_id", project_id)]
    ELSE LET sent_m == [m EXCEPT !.reqs = Append(@, "project")]
             response == ProjectQuery(m.svc, project_id)
         IN IF Raises(project_id \notin DOMAIN m.svc, refusal)
            THEN [sent_m EXCEPT !.raised = "ValueError"]
            ELSE IF \/ ~Truthy(response)
                    \/ ~HasKey(response, "project")
                    \/ Get(response, "project") = Null
            THEN [sent_m EXCEPT !.raised = "ValueError"]
            ELSE LET project == process_project_data(Get(response, "project"))
                 IN [sent_m EXCEPT
                        !.ret = project,
                        !.caches = cache_set(@, "Project", "projects_by_id",
                                             project_id, project)]

\* ProjectManager.get_all, the loop over the project nodes: the dict built and
\* the two entries cached for every node
RECURSIVE ProjectsOf(_)
ProjectsOf(project_nodes) ==
    IF project_nodes = <<>> THEN EmptyMap
    ELSE LET project == process_project_data(Head(project_nodes))
         IN ProjectsOf(Tail(project_nodes)) @@ (project.id :> project)

RECURSIVE CacheProjects(_, _)
CacheProjects(c, project_nodes) ==
    IF project_nodes = <<>> THEN c
    ELSE LET project == process_project_data(Head(project_nodes))
             by_id == cache_set(c, "Project", "projects_by_id", project.id, project)
             by_name == cache_set(by_id, "Project", "project_ids_by_name",
                                  <<project.name, NoTeam>>, project.id)
         IN CacheProjects(by_name, Tail(project_nodes))

\* ProjectManager.get_all()
project_get_all(m) ==
    IF /\ cache_has(m.caches, "Project", "all_projects", "all")
       /\ DOMAIN cache_get(m.caches, "Project", "all_projects", "all") # {}
    THEN [m EXCEPT !.ret = cache_get(m.caches, "Project", "all_projects", "all")]
    ELSE LET sent_m == [m EXCEPT !.reqs = Append(@, "projects")]
             response == ProjectsQuery(m.svc)
         IN IF \/ ~Truthy(response)
               \/ ~HasKey(response, "projects")
               \/ ~HasKey(Get(response, "projects"), "nodes")
            THEN [sent_m EXCEPT !.ret = EmptyMap]
            ELSE LET project_nodes == Get(Get(response, "projects"), "nodes").q
                     projects == ProjectsOf(project_nodes)
                 IN [sent_m EXCEPT
                        !.ret = projects,
                        !.caches = cache_set(CacheProjects(@, project_nodes), "Project",
                                             "all_projects", "all", projects)]

\* ProjectManager.get_id_by_name, the loop that caches every name
RECURSIVE CacheProjectNames(_, _)
CacheProjectNames(c, project_nodes) ==
    IF project_nodes = <<>> THEN c
    ELSE LET project == Head(project_nodes)
             next == IF HasKey(project, "name") /\ HasKey(project, "id")
                     THEN cache_set(c, "Project", "project_ids_by_name",
                                    <<Get(project, "name").s, NoTeam>>,
                                    Get(project, "id").n)
                     ELSE c
         IN CacheProjectNames(next, Tail(project_nodes))

\* ProjectManager.get_id_by_name(project_name)
project_get_id_by_name(m, project_name) ==
    LET cache_key == <<project_name, NoTeam>> IN
    IF cache_has(m.caches, "Project", "project_ids_by_name", cache_key)
    THEN [m EXCEPT !.ret = cache_get(m.caches, "Project", "project_ids_by_name", cache_key)]
    ELSE LET sent_m == [m EXCEPT !.reqs = Append(@, "projects")]
             response == ProjectsQuery(m.svc)
         IN IF \/ ~Truthy(response)
               \/ ~HasKey(response, "projects")
               \/ ~HasKey(Get(response, "projects"), "nodes")
            THEN [sent_m EXCEPT !.raised = "ValueError"]
            ELSE LET c == CacheProjectNames(m.caches,
                                            Get(Get(response, "projects"), "nodes").q)
                 IN IF cache_has(c, "Project", "project_ids_by_name", cache_key)
                    THEN [sent_m EXCEPT
                             !.ret = cache_get(c, "Project", "project_ids_by_name",
                                               cache_key),
                             !.caches = c]
                    ELSE [sent_m EXCEPT !.raised = "ValueError", !.caches = c]

\* response.get(field, {}).get("success", False)
Succeeded(response, field) ==
    /\ Truthy(response)
    /\ HasKey(response, field)
    /\ Truthy(GetOrNone(Get(response, field), "success"))

\* ProjectManager.update
project_update(m, project_id, kwargs, refusal) ==
    IF DOMAIN kwargs = {}
    THEN [m EXCEPT !.raised = "ValueError"]
    ELSE LET known == project_id \in DOMAIN m.svc
             response == MutationData("projectUpdate", known, project_id)
             sent_m == [m EXCEPT
                          !.reqs = Append(@, "projectUpdate"),
                          !.svc = IF known
                                  THEN [@ EXCEPT ![project_id] = Updated(@, kwargs)]
                                  ELSE @]
         IN IF Raises(~known, refusal) \/ ~Succeeded(response, "projectUpdate")
            THEN [sent_m EXCEPT !.raised = "ValueError"]
            ELSE project_get(
                    [sent_m EXCEPT
                        !.caches = cache_clear(
                            cache_invalidate(@, "Project", "projects_by_id", project_id),
                            "Project", "all_projects")],
                    project_id, refusal)

\* ProjectManager.delete
project_delete(m, project_id, refusal) ==
    LET known == project_id \in DOMAIN m.svc
        response == MutationData("projectDelete", known, project_id)
        sent_m == [m EXCEPT
                     !.reqs = Append(@, "projectDelete"),
                     !.svc = Without(@, project_id)]
    IN IF Raises(~known, refusal) \/ ~Succeeded(response, "projectDelete")
       THEN [sent_m EXCEPT !.raised = "ValueError"]
       ELSE [sent_m EXCEPT
                !.ret = TRUE,
                !.caches = cache_clear(
                    cache_clear(
                        cache_invalidate(@, "Project", "projects_by_id", project_id),
                        "Project", "all_projects"),
                    "Project", "project_ids_by_name")]

\* TeamManager.get_id_by_name and TeamManager.get_all, the loops over the team nodes
RECURSIVE CacheTeamNames(_, _)
CacheTeamNames(c, team_nodes) ==
    IF team_nodes = <<>> THEN c
    ELSE LET team == Head(team_nodes)
             next == IF HasKey(team, "name") /\ HasKey(team, "id")
                     THEN cache_set(c, "Team", "team_ids_by_name",
                                    Get(team, "name").s, Get(team, "id").s)
                     ELSE c
         IN CacheTeamNames(next, Tail(team_nodes))

RECURSIVE TeamsOf(_)
TeamsOf(team_nodes) ==
    IF team_nodes = <<>> THEN EmptyMap
    ELSE TeamsOf(Tail(team_nodes)) @@
         (Get(Head(team_nodes), "id").s :> Get(Head(team_nodes), "name").s)

RECURSIVE CacheTeams(_, _)
CacheTeams(c, team_nodes) ==
    IF team_nodes = <<>> THEN c
    ELSE LET team == Head(team_nodes)
             by_id == cache_set(c, "Team", "teams_by_id", Get(team, "id").s,
                                Get(team, "name").s)
             by_name == cache_set(by_id, "Team", "team_ids_by_name",
                                  Get(team, "name").s, Get(team, "id").s)
         IN CacheTeams(by_name, Tail(team_nodes))

\* a lookup that answers None for a name it does not find
team_get_id_or_none(m, team_name) ==
    IF team_name \in DOMAIN Teams
    THEN [m EXCEPT !.ret = Teams[team_name]]
    ELSE [m EXCEPT !.ret = NoTeam]

\* TeamManager.get_id_by_name
team_get_id_by_name(m, team_name) ==
    IF cache_has(m.caches, "Team", "team_ids_by_name", team_name)
    THEN [m EXCEPT !.ret = cache_get(m.caches, "Team", "team_ids_by_name", team_name)]
    ELSE LET sent_m == [m EXCEPT !.reqs = Append(@, "teams")]
             response == TeamsQuery
         IN IF \/ ~Truthy(response)
               \/ ~HasKey(response, "teams")
               \/ ~HasKey(Get(response, "teams"), "nodes")
            THEN [sent_m EXCEPT !.raised = "ValueError"]
            ELSE LET c == CacheTeamNames(m.caches, Get(Get(response, "teams"), "nodes").q)
                 IN IF cache_has(c, "Team", "team_ids_by_name", team_name)
                    THEN [sent_m EXCEPT
                             !.ret = cache_get(c, "Team", "team_ids_by_name", team_name),
                             !.caches = c]
                    ELSE [sent_m EXCEPT !.raised = "ValueError", !.caches = c]

\* TeamManager.get_all
team_get_all(m) ==
    IF /\ cache_has(m.caches, "Team", "all_teams", "all")
       /\ DOMAIN cache_get(m.caches, "Team", "all_teams", "all") # {}
    THEN [m EXCEPT !.ret = cache_get(m.caches, "Team", "all_teams", "all")]
    ELSE LET sent_m == [m EXCEPT !.reqs = Append(@, "teams")]
             response == TeamsQuery
         IN IF \/ ~Truthy(response)
               \/ ~HasKey(response, "teams")
               \/ ~HasKey(Get(response, "teams"), "nodes")
            THEN [sent_m EXCEPT !.ret = EmptyMap]
            ELSE LET team_nodes == Get(Get(response, "teams"), "nodes").q
                     teams == TeamsOf(team_nodes)
                 IN [sent_m EXCEPT
                        !.ret = teams,
                        !.caches = cache_set(CacheTeams(@, team_nodes), "Team",
                                             "all_teams", "all", teams)]

TeamIds == {Teams[t] : t \in DOMAIN Teams}

\* ProjectManager.create; new_id is the id the service gives the project
project_create(m, name, team_name, description, new_id, refusal) ==
    LET resolved == team_get_id_by_name(m, team_name) IN
    IF resolved.raised # ""
    THEN resolved
    ELSE LET team_id == resolved.ret
             accepted == team_id \in TeamIds
             response == MutationData("projectCreate", accepted, new_id)
             sent_m == [resolved EXCEPT
                          !.reqs = Append(@, "projectCreate"),
                          !.ret = 0,
                          !.svc = IF accepted
                                  THEN (new_id :> ServiceProject(name, description)) @@ @
                                  ELSE @]
         IN IF Raises(~accepted, refusal) \/ ~Succeeded(response, "projectCreate")
            THEN [sent_m EXCEPT !.raised = "ValueError"]
            ELSE project_get(
                    [sent_m EXCEPT
                        !.caches = cache_invalidate(cache_clear_all(@, "Project"),
                                                    "Team", "all_teams", "all")],
                    Get(Get(Get(response, "projectCreate"), "project"), "id").n,
                    refusal)

(***************************************************************************)
(* The steps of a client: its manager calls.                               *)
(***************************************************************************)
Held(arg) == cache_has(caches, "Project", "projects_by_id", arg)

ManagerCall(call, arg, team, kwargs, held, d) ==
    /\ nops < MaxOps
    /\ nops' = nops + 1
    /\ prev_op' = Brief(op)
    /\ op' = OpRec(call, arg, team, kwargs, held, d.reqs, d.raised, d.ret)
    /\ svc' = d.svc
    /\ caches' = d.caches
    /\ UNCHANGED <<uvars, lvars>>

ProjectIds == 1..MaxProjects

ProjectGet ==
    \E project_id \in ProjectIds : \E refusal \in Refusals :
        /\ ManagerCall("get", project_id, "", <<>>, Held(project_id),
                       project_get(Begin, project_id, refusal))
        /\ UNCHANGED <<issued, updated>>

ProjectGetAll ==
    /\ ManagerCall("get_all", 0, "", <<>>, FALSE, project_get_all(Begin))
    /\ UNCHANGED <<issued, updated>>

ProjectGetIdByName ==
    \E project_name \in ProjectNames :
        /\ ManagerCall("get_id_by_name", project_name, "", <<>>, FALSE,
                       project_get_id_by_name(Begin, project_name))
        /\ UNCHANGED <<issued, updated>>

ProjectUpdate ==
    \E project_id \in ProjectIds : \E kwargs \in UpdateKwargs : \E refusal \in Refusals :
        LET d == project_update(Begin, project_id, kwargs, refusal) IN
        /\ ManagerCall("update", project_id, "", kwargs, Held(project_id), d)
        /\ updated' = IF d.raised = "" THEN updated \cup {project_id} ELSE updated
        /\ UNCHANGED issued

ProjectDelete ==
    \E project_id \in ProjectIds : \E refusal \in Refusals :
        /\ ManagerCall("delete", project_id, "", <<>>, Held(project_id),
                       project_delete(Begin, project_id, refusal))
        /\ UNCHANGED <<issued, updated>>

ProjectCreate ==
    \E name \in ProjectNames : \E team_name \in TeamNames :
    \E description \in {"", "d0"} : \E refusal \in Refusals :
        LET d == project_create(Begin, name, team_name, description, issued + 1, refusal)
        IN /\ team_name \in DOMAIN Teams => issued < MaxProjects
           /\ ManagerCall("create", name, team_name, <<>>, FALSE, d)
           /\ issued' = IF DOMAIN d.svc = DOMAIN svc THEN issued ELSE issued + 1
           /\ UNCHANGED updated

TeamGetAll ==
    /\ ManagerCall("teams.get_all", 0, "", <<>>, FALSE, team_get_all(Begin))
    /\ UNCHANGED <<issued, updated>>

TeamGetIdByName ==
    \E team_name \in TeamNames :
        /\ ManagerCall("teams.get_id_by_name", 0, team_name, <<>>, FALSE,
                       team_get_id_by_name(Begin, team_name))
        /\ UNCHANGED <<issued, updated>>

NextManager ==
    \/ ProjectGet
    \/ ProjectGetAll
    \/ ProjectGetIdByName
    \/ ProjectUpdate
    \/ ProjectDelete
    \/ ProjectCreate
    \/ TeamGetAll
    \/ TeamGetIdByName

ManagerSpec == Init /\ [][NextManager]_vars

(***************************************************************************)
(* BaseManager._handle_pagination, lines 152-218.  The server holds a      *)
(* chain of pages: a request without a cursor gets page 1, a request with  *)
(* the endCursor "c<j>" of page j gets page j + 1.  Page j holds the nodes *)
(* 10*j+1, 10*j+2, ...  One loop iteration is one step.  results is kept   *)
(* up to ResultCap nodes (what is appended beyond that is left out).       *)
(***************************************************************************)
\* the calls of the managers (issue_manager.py 300, 345, 385)
LegacyCalls ==
    {<<Map(<< <<"teamId", Str("t1")>> >>), <<"issues", "nodes">> >>,
     <<Map(<< <<"projectId", Str("p1")>> >>), <<"project", "issues", "nodes">> >>,
     <<Map(<<>>), <<"issues", "nodes">> >>}

\* the last page of a chain: one that reports no next page, one that has no
\* pageInfo, a response without the container, or a page that reports a next
\* page without a cursor for it
LegacyTerminals ==
    {Last, LastWithCursor, Raw("noinfo"), Raw("nokey"), MoreNoCursor, MoreEmptyCursor}

Chains == {Mores(k) \o <<t>> : k \in 0..MaxMore, t \in LegacyTerminals}

ResultCap == 2 * (MaxMore + 1)

\* the page a cursor stands before
CursorPage(c) == CHOOSE j \in 1..(MaxMore + 1) : c = Str("c" \o StrOfInt(j))

\* the container of a response: node_path without its last segment
ContainerLoc(node_path) == [i \in 1..(Len(node_path) - 1) |-> Key(node_path[i])]

\* line 186, self._execute_raw_query(query, query_vars)
ServerAnswer(server, node_path, query_vars) ==
    LET j == IF HasKey(query_vars, "cursor")
             THEN CursorPage(Get(query_vars, "cursor")) + 1 ELSE 1
    IN ResponseTree(ContainerLoc(node_path), server[j], j - 1)

\* lines 181-183
QueryVars(vs, cursor) ==
    IF Truthy(cursor) THEN Put(vs, "cursor", cursor) ELSE vs

\* lines 189-193: down the path, as far as its segments are there
RECURSIVE NodesContainer(_, _)
NodesContainer(nodes_container, segments) ==
    IF segments = <<>> THEN nodes_container
    ELSE IF ~HasKey(nodes_container, Head(segments)) THEN nodes_container
    ELSE NodesContainer(Get(nodes_container, Head(segments)), Tail(segments))

\* lines 196-207, without model_class and transform_func
NodesOf(nodes_container, node_path) ==
    IF HasKey(nodes_container, node_path[Len(node_path)])
    THEN Get(nodes_container, node_path[Len(node_path)]).q
    ELSE <<>>

\* lines 210-213
MorePages(nodes_container) ==
    /\ HasKey(nodes_container, "pageInfo")
    /\ Truthy(IF HasKey(Get(nodes_container, "pageInfo"), "hasNextPage")
              THEN Get(Get(nodes_container, "pageInfo"), "hasNextPage")
              ELSE Bool(FALSE))

\* lines 176-177
HandlePaginationCall(vs, node_path, server) ==
    /\ legacy_pc = "idle"
    /\ legacy_pc' = "loop"
    /\ legacy_variables' = vs
    /\ legacy_node_path' = node_path
    /\ legacy_server' = server
    /\ legacy_cursor' = Null
    /\ legacy_results' = <<>>
    /\ legacy_query_vars' = Null
    /\ legacy_response' = NoPage
    /\ UNCHANGED <<uvars, mvars>>

\* lines 179-216: one iteration of `while True`
HandlePaginationLoop ==
    /\ legacy_pc = "loop"
    /\ LET query_vars == QueryVars(legacy_variables, legacy_cursor)
           response == ServerAnswer(legacy_server, legacy_node_path, query_vars)
           nodes_container ==
               NodesContainer(response, SubSeq(legacy_node_path, 1,
                                               Len(legacy_node_path) - 1))
           nodes == NodesOf(nodes_container, legacy_node_path)
       IN /\ legacy_query_vars' = query_vars
          /\ legacy_response' = response
          /\ legacy_results' = IF Len(legacy_results) + Len(nodes) <= ResultCap
                               THEN legacy_results \o nodes ELSE legacy_results
          /\ IF MorePages(nodes_container)
             THEN /\ legacy_cursor' = Get(Get(nodes_container, "pageInfo"), "endCursor")
                  /\ legacy_pc' = "loop"
             ELSE /\ legacy_cursor' = legacy_cursor
                  /\ legacy_pc' = "done"
    /\ UNCHANGED <<legacy_variables, legacy_node_path, legacy_server>>
    /\ UNCHANGED <<uvars, mvars>>

NextLegacy ==
    \/ \E call \in LegacyCalls : \E server \in Chains :
          HandlePaginationCall(call[1], call[2], server)
    \/ HandlePaginationLoop

\* the loop is synchronous code: an iteration that can run does run
LegacySpec == Init /\ [][NextLegacy]_vars /\ WF_vars(HandlePaginationLoop)

(***************************************************************************)
(* Vocabulary of the properties.                                           *)
(***************************************************************************)
\* a call has ended and the caller has not yet touched what it returned
Finished == pc = "idle" /\ ncall > 0 /\ ~mutated

Returned == Finished /\ ~escaped

NodesAt(tree, loc) == Get(GetAt(tree, loc), "nodes").q

PageInfoAt(tree, loc) == Get(GetAt(tree, loc), "pageInfo")

HasNextAt(tree, loc) == Get(PageInfoAt(tree, loc), "hasNextPage")

\* the number a node carries: the node itself, or its id
Label(node) == IF node.t = "int" THEN node.n ELSE Get(node, "id").n

Labels(nodes) == [i \in 1..Len(nodes) |-> Label(nodes[i])]

IsPrefix(a, b) == Len(a) <= Len(b) /\ SubSeq(b, 1, Len(a)) = a

Increasing(ns) == \A i \in 1..Len(ns) : \A j \in 1..Len(ns) : i < j => ns[i] < ns[j]

\* the first page promises a next page and names a cursor for it
NeedsFetch(c) ==
    /\ Get(c, "pageInfo").kv # <<>>
    /\ Get(Get(c, "pageInfo"), "hasNextPage") = Bool(TRUE)
    /\ Get(Get(c, "pageInfo"), "endCursor").t = "str"
    /\ Get(Get(c, "pageInfo"), "endCursor").s # ""

\* the script is the k-1 follow-up pages of a chain of k pages: all valid, all
\* but the last reporting hasNextPage true with a cursor, the last false
CompleteScript(sc) ==
    /\ sc.tail = "raise"
    /\ Len(sc.pages) >= 1
    /\ \A j \in 1..Len(sc.pages) :
          /\ sc.pages[j].r = "page"
          /\ j < Len(sc.pages) => sc.pages[j].has /\ sc.pages[j].cur = "next"
          /\ j = Len(sc.pages) => ~sc.pages[j].has

RECURSIVE ScriptNodes(_)
ScriptNodes(pages) ==
    IF pages = <<>> THEN 0 ELSE Head(pages).n + ScriptNodes(Tail(pages))

AlwaysRaises(sc) == sc = Script(<<>>, "raise")

\* all pages of the chain are in the connection and it reports no next page
FullyUnwrapped(loc) ==
    /\ Len(NodesAt(result, loc)) = Len(NodesAt(orig, loc)) + ScriptNodes(stub[loc].pages)
    /\ HasNextAt(result, loc) = Bool(FALSE)

\* depth of the _process_connections call that reaches a location
Depth(loc) == Cardinality({i \in 1..Len(loc) : loc[i].k = "key"})

(***************************************************************************)
(* C1  Completeness: when a call returns, every connection the walk        *)
(* reached whose executor serves a complete chain of k pages holds the     *)
(* nodes of all k pages and reports hasNextPage false.                     *)
(***************************************************************************)
C1_Completeness ==
    Returned /\ IsDict(orig) =>
        \A loc \in reached \cap DOMAIN stub :
            /\ NeedsFetch(GetAt(orig, loc)) /\ CompleteScript(stub[loc])
                  => FullyUnwrapped(loc)
            /\ HasNextAt(orig, loc) = Bool(FALSE)
                  => /\ Len(NodesAt(result, loc)) = Len(NodesAt(orig, loc))
                     /\ HasNextAt(result, loc) = Bool(FALSE)

(***************************************************************************)
(* C2  Order preservation: the nodes of a connection stay in page order    *)
(* and in the executor's order within a page (their numbers increase), and *)
(* no step of a call reorders or removes a node that is already there.     *)
(***************************************************************************)
TreeNow == IF pc = "idle" THEN result ELSE data

InOrder(tree) ==
    \A loc \in ConnLocs(tree) : Increasing(Labels(NodesAt(tree, loc)))

AppendOnly ==
    /\ pc # "idle" /\ pc' # "idle" =>
          \A loc \in ConnLocs(data) :
              IsPrefix(Labels(NodesAt(data, loc)), Labels(NodesAt(data', loc)))
    /\ pc # "idle" /\ pc' = "idle" /\ ~escaped' => result' = data
    /\ ~mutated' => InOrder(TreeNow')

C2_OrderPreserved == [][AppendOnly]_vars

C2_Witness ==
    /\ Returned
    /\ orig = InOne
    /\ Labels(NodesAt(result, <<Key("items")>>)) = <<11, 21, 22, 31>>

(***************************************************************************)
(* C3  The visited set is scoped to one call: whatever earlier calls on    *)
(* the instance did, a connection the walk reaches that has a next page    *)
(* is paginated again (the executor is asked for its next page).           *)
(***************************************************************************)
C3_VisitedScopedToCall ==
    Returned /\ IsDict(orig) =>
        \A loc \in reached \cap DOMAIN stub :
            NeedsFetch(GetAt(orig, loc)) => loc \in fetchedAt

RaisesAfterMores(sc) ==
    /\ sc.tail = "raise"
    /\ \A j \in 1..Len(sc.pages) : sc.pages[j] = More

C5_GracefulDegradation ==
    Finished /\ IsDict(orig) =>
        /\ ~escaped
        /\ \A loc \in DOMAIN stub :
              /\ NeedsFetch(GetAt(orig, loc)) /\ RaisesAfterMores(stub[loc]) =>
                    /\ IsPrefix(Labels(NodesAt(orig, loc)), Labels(NodesAt(result, loc)))
                    /\ HasNextAt(result, loc) = Bool(TRUE)
              /\ NeedsFetch(GetAt(orig, loc)) /\ AlwaysRaises(stub[loc]) =>
                    /\ Labels(NodesAt(result, loc)) = Labels(NodesAt(orig, loc))
                    /\ PageInfoAt(result, loc) = PageInfoAt(orig, loc)

C5_Witness ==
    /\ Returned
    /\ orig = InOne
    /\ AlwaysRaises(stub[<<Key("items")>>])
    /\ <<Key("items")>> \in fetchedAt
    /\ result = InOne

(***************************************************************************)
(* C6  Multi-connection independence: of two connections at the same       *)
(* depth, one with a complete chain and one whose executor always raises,  *)
(* the first ends fully unwrapped and the second as it was, in either      *)
(* visiting order.                                                         *)
(***************************************************************************)
C6_SiblingIndependence ==
    Returned /\ IsDict(orig) =>
        \A p \in DOMAIN stub : \A q \in DOMAIN stub :
            /\ p # q /\ Len(p) = Len(q)
            /\ NeedsFetch(GetAt(orig, p)) /\ CompleteScript(stub[p])
            /\ AlwaysRaises(stub[q])
            => /\ FullyUnwrapped(p)
               /\ GetAt(result, q) = GetAt(orig, q)

C8_DepthBound ==
    Returned /\ IsDict(orig) =>
        /\ \A loc \in reached : Depth(loc) <= max_depth
        /\ \A loc \in reached \cap DOMAIN stub :
              NeedsFetch(GetAt(orig, loc)) /\ CompleteScript(stub[loc])
                  => loc \in fetchedAt /\ FullyUnwrapped(loc)
        /\ \A loc \in DOMAIN stub :
              Depth(loc) > max_depth =>
                  /\ loc \notin fetchedAt
                  /\ GetAt(result, loc) = GetAt(orig, loc)

(***************************************************************************)
(* C9  No exception escapes: whatever the executor returns or raises, no   *)
(* exception leaves unwrap_connections, and a call on a mapping returns a  *)
(* mapping.                                                                *)
(***************************************************************************)
C9_NoExceptionEscapes ==
    /\ ~escaped
    /\ Finished /\ IsDict(orig) => IsDict(result)

C9_Witness ==
    /\ Returned
    /\ orig = InOne
    /\ stub[<<Key("items")>>] = Script(<<More, Raw("null")>>, "raise")
    /\ Labels(NodesAt(result, <<Key("items")>>)) = <<11, 21, 22>>

LastPageOf(loc) ==
    ResponseTree(loc, stub[loc].pages[Len(stub[loc].pages)], Len(stub[loc].pages))

ExampleResult ==
    Map(<< <<"items", Conn(<<Num(11), Num(21)>>, Bool(FALSE), Null)>> >>)

C11_FinalPageInfo ==
    Returned /\ IsDict(orig) =>
        /\ \A loc \in fetchedAt \cap DOMAIN stub :
              CompleteScript(stub[loc]) =>
                  /\ HasNextAt(result, loc) = Bool(FALSE)
                  /\ Get(PageInfoAt(result, loc), "endCursor")
                        = Get(PageInfoAt(LastPageOf(loc), loc), "endCursor")
        /\ orig = InOne /\ fetchedAt # {} /\ stub[<<Key("items")>>] = Script(<<Last>>, "raise")
              => result = ExampleResult /\ executor_calls = 1

C11_Witness ==
    /\ Returned
    /\ orig = InOne
    /\ stub[<<Key("items")>>] = Script(<<More, LastWithCursor>>, "raise")
    /\ PageInfoAt(result, <<Key("items")>>)
          = Map(<< <<"hasNextPage", Bool(FALSE)>>, <<"endCursor", Str("c3")>> >>)

(***************************************************************************)
(* C12  The caller's variables mapping is never changed: during and after  *)
(* a call it equals its value when the call was made, however many         *)
(* connections and pages were fetched with cursor keys added to it.        *)
(***************************************************************************)
C12_VariablesUntouched == ncall > 0 => variables = orig_variables

C12_Witness ==
    /\ Returned
    /\ orig = InTwo
    /\ Cardinality(fetchedAt) = 2
    /\ executor_calls >= 3
    /\ GetOrNone(orig_variables, "after") = Str("start")
    /\ GetOrNone(sent, "after") # Str("start")
    /\ HasKey(sent, "bCursor")
    /\ variables = orig_variables

(***************************************************************************)
(* C13  Root no-op: a responseBody that is no mapping at the root (null, a *)
(* scalar, a sequence, also one whose elements hold connections with       *)
(* hasNextPage true) is returned as it is, at once, and the executor is    *)
(* never called.                                                           *)
(***************************************************************************)
C13_RootNoOp ==
    ncall > 0 /\ ~IsDict(orig) =>
        /\ pc = "idle"
        /\ ~escaped
        /\ fetchedAt = {}
        /\ executor_calls = 0
        /\ ~mutated => result = orig

C13_Witness ==
    /\ Returned
    /\ orig = List(<<InOne>>)
    /\ NeedsFetch(GetAt(orig, <<Idx(0), Key("items")>>))
    /\ result = orig

(***************************************************************************)
(* C17  Connection detection: the page-fetch loop runs for a mapping if    *)
(* and only if its nodes is a sequence, its pageInfo a mapping with a      *)
(* boolean hasNextPage and an endCursor key, and its path was not visited  *)
(* in this call; a mapping whose hasNextPage is no boolean is left as      *)
(* found and the executor is not asked about it.                           *)
(***************************************************************************)
BooleanConnection(x) ==
    /\ ConnectionShaped(x)
    /\ Get(Get(x, "pageInfo"), "hasNextPage").t = "bool"

C17_ConnectionDetection ==
    /\ pc = "fetch" => BooleanConnection(GetAt(data, cur.loc))
    /\ Returned /\ IsDict(orig) =>
          /\ \A loc \in ConnLocs(orig) :
                ~BooleanConnection(GetAt(orig, loc)) =>
                    loc \notin fetchedAt /\ GetAt(result, loc) = GetAt(orig, loc)
          /\ \A loc \in reached \cap DOMAIN stub :
                BooleanConnection(GetAt(orig, loc)) /\ NeedsFetch(GetAt(orig, loc))
                    => loc \in fetchedAt

(***************************************************************************)
(* C18  Stop condition: when the page-fetch loop finds hasNextPage false,  *)
(* or endCursor absent, null or empty, it makes no executor call and       *)
(* leaves the tree (the connection's nodes and pageInfo) as it is; so also *)
(* after a follow-up page with hasNextPage true and an empty endCursor.    *)
(***************************************************************************)
StopCase(page_info) ==
    \/ HasKey(page_info, "hasNextPage") /\ Get(page_info, "hasNextPage") = Bool(FALSE)
    \/ ~HasKey(page_info, "endCursor")
    \/ Get(page_info, "endCursor") \in {Null, Str("")}

StopsWithoutFetch ==
    pc = "unwrap" /\ StopCase(PageInfoAt(data, cur.loc)) =>
        /\ pc' = "children"
        /\ data' = data
        /\ executor_calls' = executor_calls
        /\ fetchedAt' = fetchedAt
        /\ ~escaped'

C18_StopCondition == [][StopsWithoutFetch]_vars

C18_Witness ==
    /\ Returned
    /\ orig = InOne
    /\ stub[<<Key("items")>>] = Script(<<More, MoreEmptyCursor>>, "raise")
    /\ executor_calls = 2
    /\ PageInfoAt(result, <<Key("items")>>)
          = Map(<< <<"hasNextPage", Bool(TRUE)>>, <<"endCursor", Str("")>> >>)
    /\ Labels(NodesAt(result, <<Key("items")>>)) = <<11, 21, 22, 31>>

(***************************************************************************)
(* C19  Cursor chaining: every executor call carries the caller's query   *)
(* and variables in which "<last path segment>Cursor" (for a non-empty     *)
(* path), "cursor" and "after" are the endCursor of the page merged last,  *)
(* which for a later call is the endCursor of the previous follow-up       *)
(* response; every other key is as in the caller's variables.              *)
(***************************************************************************)
SegmentName(seg) == IF seg.k = "key" THEN seg.s ELSE StrOfInt(seg.i)

CursorKeys(loc) ==
    {"cursor", "after"}
    \cup (IF loc = <<>> THEN {} ELSE {SegmentName(loc[Len(loc)]) \o "Cursor"})

KeysOf(m) == {m.kv[i][1] : i \in 1..Len(m.kv)}

CursorSent ==
    pc = "fetch" =>
        LET cursor == Get(PageInfoAt(data, cur.loc), "endCursor") IN
        /\ sent_query' = query
        /\ query' = query
        /\ \A k \in CursorKeys(cur.loc) : HasKey(sent', k) /\ Get(sent', k) = cursor
        /\ prev # NoPage => Get(PageInfoAt(prev, cur.loc), "endCursor") = cursor
        /\ KeysOf(sent') \ CursorKeys(cur.loc) = KeysOf(orig_variables) \ CursorKeys(cur.loc)
        /\ \A k \in KeysOf(orig_variables) \ CursorKeys(cur.loc) :
              Get(sent', k) = Get(orig_variables, k)

C19_CursorChaining == [][CursorSent]_vars

C19_Witness ==
    /\ orig = InOne
    /\ executor_calls = 2
    /\ sent_query = TheQuery
    /\ orig_variables \in WideVars \ CallerVars
    /\ sent = Map(<< <<"after", Str("c2")>>, <<"first", Num(2)>>,
                     <<"itemsCursor", Str("c2")>>, <<"cursor", Str("c2")>> >>)

(***************************************************************************)
(* C20  Abort on structural mismatch: when a follow-up response lacks a    *)
(* segment of the connection's path (absent key, index out of range, index *)
(* on something that is no sequence) or holds no connection shape there,   *)
(* pagination of that connection stops without an exception and the tree   *)
(* stays as it was before that fetch.                                      *)
(***************************************************************************)
RECURSIVE PathMissing(_, _)
PathMissing(tree, loc) ==
    IF loc = <<>> THEN FALSE
    ELSE IF Head(loc).k = "key"
    THEN \/ tree.t # "map"
         \/ ~HasKey(tree, Head(loc).s)
         \/ PathMissing(Get(tree, Head(loc).s), Tail(loc))
    ELSE \/ tree.t # "list"
         \/ Head(loc).i >= Len(tree.q)
         \/ PathMissing(tree.q[Head(loc).i + 1], Tail(loc))

Mismatch(tree, loc) == PathMissing(tree, loc) \/ ~ConnectionShaped(GetAt(tree, loc))

AbortsOnMismatch ==
    pc = "fetch" /\ ExecResponse(stub, cur.loc, ix).r # "raise" =>
        LET next_page == ResponseTree(cur.loc, ExecResponse(stub, cur.loc, ix), ix + 1) IN
        Mismatch(next_page, cur.loc) =>
            /\ pc' = "children"
            /\ data' = data
            /\ ~escaped'

ById == caches[FullName("Project", "projects_by_id")]

AllProjects == caches[FullName("Project", "all_projects")]

IdsByName == caches[FullName("Project", "project_ids_by_name")]

\* the latest call is get(project_id), right after a delete(project_id) that
\* returned True
GetAfterDelete ==
    /\ prev_op.call = "delete"
    /\ prev_op.raised = ""
    /\ op.call = "get"
    /\ op.arg = prev_op.arg

\* C14: a get(project_id) that follows a delete(project_id) which returned True is
\* not answered from the projects_by_id cache: it sends the project query, and
\* raises ValueError when the service no longer has the project
C14_DeleteInvalidates ==
    GetAfterDelete =>
        /\ op.reqs = <<"project">>
        /\ op.arg \notin DOMAIN svc => op.raised = "ValueError"

\* the deleted project was in projects_by_id when delete was called
C14_Witness ==
    /\ GetAfterDelete
    /\ prev_op.held
    /\ op.arg \notin DOMAIN svc
    /\ op.reqs = <<"project">>
    /\ op.raised = "ValueError"

\* a LinearProject carries the name and description the service has for it
Current(project) ==
    /\ project.id \in DOMAIN svc
    /\ project.name = svc[project.id].name
    /\ project.description = svc[project.id].description

\* C15: once update(project_id, ...) has succeeded, the project it returned and
\* every entry of the Project caches about that project (projects_by_id,
\* all_projects, project_ids_by_name) carry the name and description the service
\* has after the update
C15_UpdateInvalidates ==
    \A project_id \in updated \cap DOMAIN svc :
        /\ (op.call = "update" /\ op.raised = "" /\ op.arg = project_id)
              => Current(op.ret)
        /\ project_id \in DOMAIN ById => Current(ById[project_id])
        /\ \A key \in DOMAIN AllProjects :
              project_id \in DOMAIN AllProjects[key]
                 => Current(AllProjects[key][project_id])
        /\ \A key \in DOMAIN IdsByName :
              IdsByName[key] = project_id => key[1] = svc[project_id].name

\* the step is a create whose team name is none of the service's teams
CreateUnresolved ==
    /\ nops' = nops + 1
    /\ op'.call = "create"
    /\ op'.team \notin DOMAIN Teams

\* C16: create with a team name that resolves to no team raises ValueError, sends
\* no projectCreate mutation, and leaves the three Project caches and the all_teams
\* cache of the teams as they were
CreateRaisesFirst ==
    CreateUnresolved =>
        /\ op'.raised = "ValueError"
        /\ \A i \in 1..Len(op'.reqs) : op'.reqs[i] # "projectCreate"
        /\ svc' = svc
        /\ \A n \in ProjectCaches :
              caches'[FullName("Project", n)] = caches[FullName("Project", n)]
        /\ caches'[FullName("Team", "all_teams")] = caches[FullName("Team", "all_teams")]

C16_CreateUnresolvedTeam == [][CreateRaisesFirst]_vars

\* the create was made with the teams and a project cached, and asked for the teams
C16_Witness ==
    /\ op.call = "create"
    /\ op.team = "NonExistentTeam"
    /\ op.raised = "ValueError"
    /\ op.reqs = <<"teams">>
    /\ "all" \in DOMAIN caches[FullName("Team", "all_teams")]
    /\ DOMAIN ById # {}

(***************************************************************************)
(* C21  Exhaustive walk: when a call on a fresh instance returns, every    *)
(* connection-shaped mapping of the returned tree that lies within the     *)
(* depth limit, under mappings and sequences in any nesting (a sequence    *)
(* inside a sequence, a node merged from a follow-up page), was reached by *)
(* the walk.                                                               *)
(***************************************************************************)
C21_ExhaustiveWalk ==
    Returned /\ IsDict(orig) =>
        \A loc \in ConnLocs(result) : Depth(loc) <= max_depth => loc \in reached

(***************************************************************************)
(* C22  Whole-page prefix: in every state of a call and in the tree it     *)
(* returns, the nodes of each connection are those of its first page       *)
(* followed by all nodes of the first j follow-up pages the executor       *)
(* served for it, in that order, for some j >= 0 (j = 0 while nothing was  *)
(* fetched for it); no page is there in part, none twice, none missing     *)
(* before a later one.                                                     *)
(***************************************************************************)
\* the nodes of the first page of the connection at loc
FirstLabels(loc) ==
    IF PathMissing(orig, loc) THEN Labels(Get(FirstPage("s1"), "nodes").q)
    ELSE Labels(NodesAt(orig, loc))

\* the follow-up responses 1..j of the script all hold a page at loc
Mergeable(loc, pages, j) ==
    \A k \in 1..j : ~Mismatch(ResponseTree(loc, pages[k], k), loc)

RECURSIVE Served(_, _, _)
Served(loc, pages, j) ==
    IF j = 0 THEN <<>>
    ELSE Served(loc, pages, j - 1)
         \o Labels(NodesAt(ResponseTree(loc, pages[j], j), loc))

WholePages(tree, loc) ==
    \E j \in 0..Len(stub[loc].pages) :
        /\ loc \notin fetchedAt => j = 0
        /\ Mergeable(loc, stub[loc].pages, j)
        /\ Labels(NodesAt(tree, loc)) = FirstLabels(loc) \o Served(loc, stub[loc].pages, j)

C22_WholePagePrefix ==
    IsDict(TreeNow) /\ ~mutated =>
        \A loc \in ConnLocs(TreeNow) \cap DOMAIN stub : WholePages(TreeNow, loc)

\* an executor error after two merged pages: both are there, whole
C22_Witness ==
    /\ Returned
    /\ orig = InOne
    /\ stub[<<Key("items")>>] = Script(<<More, More>>, "raise")
    /\ executor_calls = 3
    /\ Labels(NodesAt(result, <<Key("items")>>)) = <<11, 21, 22, 31, 32>>

(***************************************************************************)
(* C23  Sequential, pre-order fetching: whenever the executor is about to  *)
(* be called for a connection, every other connection it was called for    *)
(* earlier in this call comes before that connection in the pre-order of   *)
(* the tree (an enclosing connection, or an earlier sibling subtree); so   *)
(* the calls for one connection are consecutive and are over before those  *)
(* of a nested or later connection begin.  One call is made per step.      *)
(***************************************************************************)
KeyPos(m, k) == CHOOSE i \in 1..Len(m.kv) : m.kv[i][1] = k

\* position of a child among the children of x, in iteration order
ChildPos(x, seg) == IF seg.k = "key" THEN KeyPos(x, seg.s) ELSE seg.i + 1

\* first position at which two locations part
RECURSIVE Fork(_, _, _)
Fork(a, b, i) ==
    IF i > Len(a) \/ i > Len(b) \/ a[i] # b[i] THEN i ELSE Fork(a, b, i + 1)

\* a is walked before b: it encloses b, or lies in an earlier child subtree
Before(tree, a, b) ==
    LET i == Fork(a, b, 1) IN
    IF i > Len(a) THEN i <= Len(b)
    ELSE IF i > Len(b) THEN FALSE
    ELSE LET parent == GetAt(tree, SubSeq(a, 1, i - 1))
         IN ChildPos(parent, a[i]) < ChildPos(parent, b[i])

PreOrderFetch ==
    /\ pc = "fetch" =>
          /\ \A earlier \in fetchedAt \ {cur.loc} : Before(data, earlier, cur.loc)
          /\ fetchedAt' = fetchedAt \cup {cur.loc}
          /\ cur' = cur
    /\ pc # "fetch" =>
          /\ fetchedAt' = fetchedAt \/ (pc = "idle" /\ fetchedAt' = {})
          /\ executor_calls' = executor_calls \/ (pc = "idle" /\ executor_calls' = 0)

C23_SequentialFetching == [][PreOrderFetch]_vars

\* the nested connection is fetched after both pages of the enclosing one
C23_Witness ==
    /\ pc = "fetch"
    /\ orig = InNested
    /\ cur.loc = <<Key("items"), Key("nodes"), Idx(0), Key("sub")>>
    /\ fetchedAt = {<<Key("items")>>}
    /\ Labels(NodesAt(data, <<Key("items")>>)) = <<11, 21, 22, 31>>

(***************************************************************************)
(* C24  Reentrancy: a call that is interleaved with another call on the    *)
(* same instance ends as it would alone: every connection it reaches that  *)
(* has a next page is fetched, and holds all pages when the executor       *)
(* serves a complete chain, also at a path the other call has visited.     *)
(***************************************************************************)
C24_Reentrant ==
    Returned /\ IsDict(orig) =>
        \A loc \in reached \cap DOMAIN stub :
            NeedsFetch(GetAt(orig, loc)) =>
                /\ loc \in fetchedAt
                /\ CompleteScript(stub[loc]) => FullyUnwrapped(loc)

(***************************************************************************)
(* C25  Legacy pagination loop: a _handle_pagination call on a finite      *)
(* chain of pages returns, also when a page of the chain reports           *)
(* hasNextPage true with a null or empty endCursor.                        *)
(***************************************************************************)
C25_LegacyTerminates == (legacy_pc = "loop") ~> (legacy_pc = "done")

(***************************************************************************)
(* C26  Resumable pageInfo: when a call returns, hasNextPage and endCursor *)
(* of every connection are the two values reported by the last follow-up   *)
(* page whose nodes were merged into it, or by its first page if none was  *)
(* merged, whether pagination ran to its end, stopped on a response of     *)
(* another shape or stopped on an executor error.                          *)
(***************************************************************************)
PagePair(page_info) == <<Get(page_info, "hasNextPage"), Get(page_info, "endCursor")>>

\* how many follow-up pages the nodes of the connection hold
MergedPages(tree, loc) ==
    CHOOSE j \in 0..Len(stub[loc].pages) :
        /\ Mergeable(loc, stub[loc].pages, j)
        /\ Labels(NodesAt(tree, loc)) = FirstLabels(loc) \o Served(loc, stub[loc].pages, j)

\* the pageInfo of the first page of the connection at loc
FirstPageInfo(loc) ==
    IF PathMissing(orig, loc) THEN Get(FirstPage("s1"), "pageInfo")
    ELSE PageInfoAt(orig, loc)

ReportedPair(tree, loc) ==
    LET j == MergedPages(tree, loc) IN
    IF j = 0 THEN PagePair(FirstPageInfo(loc))
    ELSE PagePair(PageInfoAt(ResponseTree(loc, stub[loc].pages[j], j), loc))

C27_PathKeysUnique ==
    /\ \A a \in reached : \A b \in reached :
          a # b => JoinDot(PathOf(a)) # JoinDot(PathOf(b))
    /\ Returned /\ IsDict(orig) =>
          \A loc \in reached \cap ConnLocs(orig) :
              NeedsFetch(GetAt(orig, loc)) => loc \in fetchedAt

(***************************************************************************)
(* C28  Typed navigation: when the follow-up response holds a connection   *)
(* at the location of the connection being paginated (mapping keys looked  *)
(* up as keys, sequence indices as indices), its nodes are merged, also    *)
(* when a mapping key on the way consists of digits.                       *)
(***************************************************************************)
MergesSameShape ==
    pc = "fetch" /\ ExecResponse(stub, cur.loc, ix).r # "raise" =>
        LET next_page == ResponseTree(cur.loc, ExecResponse(stub, cur.loc, ix), ix + 1) IN
        ~Mismatch(next_page, cur.loc) =>
            /\ pc' \in {"unwrap", "children"}
            /\ NodesAt(data', cur.loc) = NodesAt(data, cur.loc) \o NodesAt(next_page, cur.loc)

C28_TypedNavigation == [][MergesSameShape]_vars

(***************************************************************************)
(* C29  No cursor leak: the first executor call made for a connection,     *)
(* whichever connections were paginated before it in the call (siblings,   *)
(* or the connection whose node holds it), carries the caller's original   *)
(* variables and the three cursor keys of this connection set to the       *)
(* endCursor of its own first page, and no other key.                      *)
(***************************************************************************)
NoCursorLeak ==
    pc = "fetch" /\ cur.loc \notin fetchedAt =>
        LET own == CursorKeys(cur.loc)
            cursor == Get(PageInfoAt(data, cur.loc), "endCursor")
        IN /\ KeysOf(sent') = KeysOf(orig_variables) \cup own
           /\ \A k \in own : Get(sent', k) = cursor
           /\ \A k \in KeysOf(orig_variables) \ own :
                 Get(sent', k) = Get(orig_variables, k)

C29_NoCursorLeak == [][NoCursorLeak]_vars

\* the nested connection is fetched with the caller's itemsCursor, not with the
\* cursor of the enclosing connection that was paginated before it
C29_Witness ==
    /\ orig = InNested
    /\ fetchedAt = {<<Key("items")>>, <<Key("items"), Key("nodes"), Idx(0), Key("sub")>>}
    /\ Labels(NodesAt(TreeNow, <<Key("items")>>)) = <<11, 21, 22, 31>>
    /\ sent = Map(<< <<"after", Str("s1")>>, <<"first", Num(2)>>,
                     <<"itemsCursor", Str("old")>>, <<"subCursor", Str("s1")>>,
                     <<"cursor", Str("s1")>> >>)

====
